---- MODULE Spec2Model ----
(***************************************************************************)
(* The per-connection voice relay (api/voice/__init__.py, RealtimeClient)  *)
(* as a state machine: one session, its two read loops (receive_realtime,  *)
(* receive_client) and close(), interleaved at the awaits of the code.     *)
(* A step of a loop is the code between two awaits at which the other      *)
(* coroutines of the session may run.                                      *)
(***************************************************************************)
EXTENDS Integers, Sequences, FiniteSets, TLC

\* ---------------------------------------------------------------- bounds
MaxClientMsgs == 2
MaxRemoteEvents == 2
MaxClose == 2
\* the same three for the runs that start with a populated queue
MaxQueue == 2
MaxQueueMsgs == 1
MaxQueueEvents == 1
MaxQueueClose == 1
\* and for the runs over every kind of remote event
MaxKindMsgs == 1
MaxKindEvents == 1
MaxKindClose == 1

\* The bounds of the specification under which a response is followed from
\* its first event to its response.done over a populated queue.
MaxProgressMsgs == 1
MaxProgressEvents == 2
MaxProgressClose == 1

\* The bounds of the specification with the scheduling of the event loop.
MaxFairMsgs == 1
MaxFairEvents == 1
MaxFairClose == 1

\* The bounds of the specification under which the order of handling is
\* followed: two frames and two events, so that two translations meet.
MaxOrderMsgs == 2
MaxOrderEvents == 2
MaxOrderClose == 1

\* ------------------------------------------------------------------ data
None == "None"
Sock == "sock"
Conn == "conn"

\* Message.type (the Literal of the pydantic model)
MessageTypes ==
    {"user", "assistant", "audio", "console", "interrupt", "messages", "function"}

\* A client Message as sent by send_message / send_audio / send_console.
Message(t, p) == [type |-> t, payload |-> p]

\* Payloads are kept structured: a raw string, or the object json.dumps encodes.
RawPayload(s) == [text |-> s]

\* json.loads on the payload tokens the client may send with a function frame.
JsonLoads(s) ==
    CASE s = "fn1" -> [ok |-> TRUE, keys |-> TRUE, call_id |-> "c1", output |-> "42"]
      [] s = "fn2" -> [ok |-> TRUE, keys |-> TRUE, call_id |-> "c2", output |-> "7"]
      [] s = "{}" -> [ok |-> TRUE, keys |-> FALSE, call_id |-> None, output |-> None]
      [] OTHER -> [ok |-> FALSE, keys |-> FALSE, call_id |-> None, output |-> None]

\* ConversationItem, with the fields the relay sets (the others stay None).
ConversationItem(t, role, text, call_id, output) ==
    [type |-> t, role |-> role, text |-> text, call_id |-> call_id, output |-> output]

NoItem == ConversationItem(None, None, None, None, None)

\* The events the relay sends upstream.
\* Session(...) of update_realtime_session, as a record of its arguments.
Session(instructions, threshold, silence_duration_ms, prefix_padding_ms) ==
    [input_audio_format |-> "pcm16",
     turn_detection |-> [prefix_padding_ms |-> prefix_padding_ms,
                         silence_duration_ms |-> silence_duration_ms,
                         threshold |-> threshold,
                         type |-> "server_vad"],
     input_audio_transcription |-> "whisper-1",
     voice |-> "sage",
     instructions |-> instructions,
     modalities |-> {"text", "audio"}]

NoSession == Session(None, 0, 0, 0)

SessionUpdateEvent(session) ==
    [type |-> "session.update", audio |-> None, item |-> NoItem, session |-> session]

InputAudioBufferAppendEvent(audio) ==
    [type |-> "input_audio_buffer.append", audio |-> audio, item |-> NoItem,
     session |-> NoSession]

ConversationItemCreateEvent(item) ==
    [type |-> "conversation.item.create", audio |-> None, item |-> item,
     session |-> NoSession]

ResponseCreateEvent ==
    [type |-> "response.create", audio |-> None, item |-> NoItem, session |-> NoSession]

\* The user settings of the second client frame (voice_endpoint): the keys
\* present and their values (threshold in tenths, silence and prefix in ms);
\* an absent key takes the default.
DefaultThreshold == 8
DefaultSilence == 500
DefaultPrefix == 300

Settings ==
    {[has |-> {}, threshold |-> 0, silence |-> 0, prefix |-> 0],
     [has |-> {"threshold", "silence"}, threshold |-> 5, silence |-> 200, prefix |-> 0]}

SettingOr(settings, key, d) == IF key \in settings.has THEN settings[key] ELSE d

\* --------------------------------------------------------- remote events
\* The first output item of a response.done event (type None: no output).
Output(t, id, role, content, name, arguments, call_id) ==
    [type |-> t, id |-> id, role |-> role, content |-> content, name |-> name,
     arguments |-> arguments, call_id |-> call_id]

NoOutput == Output(None, None, None, None, None, None, None)

Outputs ==
    {NoOutput,
     Output("message", "o1", "assistant", "hi", None, None, None),
     Output("message", "o1", "assistant", None, None, None, None),
     Output("function_call", "o1", None, None, "lookup", "{\"id\":1}", "c1"),
     Output("function_call", "o1", None, None, "lookup", None, "c1"),
     Output("function_call", "o1", None, None, "lookup", "{bad", "c1"),
     Output("function_call_output", "o1", None, None, None, None, "c1")}

\* output is event.response.output[0], more the item after it (if any).
Event(t, transcript, delta, output) ==
    [type |-> t, transcript |-> transcript, delta |-> delta, output |-> output,
     more |-> NoOutput]

WithMore(ev, o) == [ev EXCEPT !.more = o]

\* The event types whose handler is `pass`, and one the chain does not know.
NoOpTypes ==
    {"error", "session.updated", "conversation.created", "conversation.item.created",
     "conversation.item.input_audio_transcription.failed",
     "conversation.item.truncated", "conversation.item.deleted",
     "input_audio_buffer.committed", "input_audio_buffer.cleared",
     "input_audio_buffer.speech_stopped", "response.created",
     "response.output_item.added", "response.output_item.done",
     "response.content_part.added", "response.content_part.done",
     "response.text.delta", "response.text.done",
     "response.audio_transcript.delta", "response.audio.done",
     "response.function_call_arguments.delta",
     "response.function_call_arguments.done", "rate_limits.updated"}

UnknownTypes == {"output_audio_buffer.started"}

Transcripts == {None, "", "hello"}

Events ==
    {Event(t, None, None, NoOutput) : t \in NoOpTypes \cup UnknownTypes}
    \cup {Event("session.created", None, None, NoOutput),
          Event("input_audio_buffer.speech_started", None, None, NoOutput),
          Event("response.audio.delta", None, "pcm", NoOutput)}
    \cup {Event("conversation.item.input_audio_transcription.completed", tr, None,
                NoOutput) : tr \in Transcripts}
    \cup {Event("response.audio_transcript.done", tr, None, NoOutput) :
             tr \in Transcripts}
    \cup {Event("response.done", None, None, o) : o \in Outputs}

ArgumentsLoads_NoDefault(arguments) ==
    CASE arguments = "{\"id\":1}" -> [ok |-> TRUE, obj |-> "{id: 1}"]
      [] OTHER -> [ok |-> FALSE, obj |-> None]

\* json.loads(output.arguments or "{}") of _response_done.
ArgumentsLoads(arguments) ==
    CASE arguments \in {None, ""} -> [ok |-> TRUE, obj |-> "{}"]
      [] arguments = "{\"id\":1}" -> [ok |-> TRUE, obj |-> "{id: 1}"]
      [] OTHER -> [ok |-> FALSE, obj |-> None]

\* ---------------------------------------------------- client frames
\* A text frame from the client: whether json.loads accepts it, and its keys.
Frame(json, t, payload) == [json |-> json, type |-> t, payload |-> payload]

Frames ==
    {Frame(FALSE, None, None), Frame(TRUE, "bogus", "a")}
    \cup {Frame(TRUE, t, "a") : t \in MessageTypes \ {"function"}}
    \cup {Frame(TRUE, "function", p) : p \in {"fn1", "fn2", "{}", "{bad"}}

\* The items an owner may have put on response_queue: the k-th is distinct.
ItemText == <<"q1", "q2", "q3", "q4">>

QueueItem(k) ==
    ConversationItemCreateEvent(ConversationItem("message", "user", ItemText[k], None, None))

Queue(n) == [k \in 1..n |-> QueueItem(k)]

\* ------------------------------------------------------------- variables
VARIABLES
    client,             \* self.client: Sock or None
    realtime,           \* self.realtime: Conn or None
    response_queue,     \* self.response_queue
    active,             \* self.active
    client_state,       \* WebSocket.client_state (the peer's side)
    application_state,  \* WebSocket.application_state (closed by close())
    rtConn,             \* the remote connection itself: "open" or "closed"
    phase,              \* "created" until update_realtime_session has run
    rtPc, rtIdx, rtExit,    \* receive_realtime: position, flush index, way out
    rtIter,                 \* the iterator of `async for`: a new one at every entry
                            \* (told apart modulo 2), dropped when the loop is left
    clPc,                   \* receive_client: position
    closePc,                \* close(): position
    wire,               \* what was sent on the remote channel, in order
    toClient,           \* what was sent to the client, in order
    nMsgs, nEvents, nClose, \* client frames, remote events, close() calls so far
    clExit,             \* receive_client: way out
    rtLog,              \* the response.done being handled: queue and wire at receipt
    clLog,              \* the client frame being handled: wire and client output at receipt
    closeLog,           \* the last close() call: the handles at entry and at return
    evLog,              \* the remote event being handled: what its handler sent
    endpoint            \* voice_endpoint: position, and 'session' in locals()

vars == <<client, realtime, response_queue, active, client_state,
          application_state, rtConn, phase, rtPc, rtIdx, rtIter, rtExit, clPc, closePc,
          wire, toClient, nMsgs, nEvents, nClose, clExit,
          rtLog, clLog, closeLog, evLog, endpoint>>

\* What was sent on the remote channel: the event, the coroutine that sent it
\* and its place in that coroutine's logical action.
Sent(by, part, ev) == [by |-> by, part |-> part, ev |-> ev]

\* The log of the response.done being handled: the queue at receipt, whether
\* self.realtime was set when the handler tested the queue, and the events the
\* handler has sent upstream so far.
IdleLog == [state |-> "idle", q0 |-> <<>>, held |-> FALSE, sent |-> <<>>]

\* The log of the client frame being handled: what its handling has sent
\* upstream (sent) and to the client (out) so far.
NoFrameLog ==
    [state |-> "idle", frame |-> Frame(FALSE, None, None), sent |-> <<>>, out |-> <<>>]

\* The log of the remote event being handled: the event, what its handler has
\* sent to the client (out) and upstream (up) so far.
NoEventLog ==
    [state |-> "idle", ev |-> Event(None, None, None, NoOutput), out |-> <<>>, up |-> <<>>]

\* The handles of the session and the state of the two channels.
Handles(c, r, app, conn) ==
    [client |-> c, realtime |-> r, application_state |-> app, rtConn |-> conn]

NoHandles == Handles(None, None, None, None)

\* The log of a close() call is kept until another coroutine takes a step:
\* state "returned" is the state close() has just left; direct says that the
\* call began in the state the call before it left (prevExit) and ran with no
\* step of another coroutine in between.
NoCloseLog ==
    [state |-> "idle", entry |-> NoHandles, tried |-> {}, exit |-> NoHandles,
     direct |-> FALSE, prevExit |-> NoHandles]

\* ------------------------------------------------------------------ Init
\* RealtimeClient.__init__ on an accepted client socket and an open connection.
InitWith(queue) ==
    /\ client = Sock
    /\ realtime = Conn
    /\ response_queue = queue
    /\ active = TRUE
    /\ client_state = "CONNECTED"
    /\ application_state = "CONNECTED"
    /\ rtConn = "open"
    /\ phase = "created"
    /\ rtPc = "start" /\ rtIdx = 0 /\ rtIter = 0 /\ rtExit = "none"
    /\ clPc = "start"
    /\ closePc = "idle"
    /\ wire = <<>>
    /\ toClient = <<>>
    /\ nMsgs = 0 /\ nEvents = 0 /\ nClose = 0
    /\ clExit = "none"
    /\ rtLog = IdleLog
    /\ clLog = NoFrameLog
    /\ closeLog = NoCloseLog
    /\ evLog = NoEventLog

\* The session voice_endpoint has created.
Init == InitWith(<<>>) /\ endpoint = [pc |-> "session", session |-> TRUE]

\* voice_endpoint has accepted the socket and opened the connection; the
\* session is the one line 164 creates once both setup frames are read.
InitV == InitWith(<<>>) /\ endpoint = [pc |-> "accepted", session |-> FALSE]

\* The same session with items already on response_queue (the attribute is
\* public; no method of the class appends to it).
InitQ ==
    /\ \E n \in 0..MaxQueue : InitWith(Queue(n))
    /\ endpoint = [pc |-> "session", session |-> TRUE]

CloseLogAfterOther ==
    IF closePc = "mid" THEN [closeLog EXCEPT !.direct = FALSE] ELSE NoCloseLog

ClientSendable_Always == TRUE

\* the guard of send_message / send_audio / send_console
ClientSendable == client /= None /\ client_state /= "DISCONNECTED"

\* WebSocket.send_json: refused once the application has closed the socket.
ClientSendOk == application_state = "CONNECTED"

\* RealtimeClient.closed
closed == IF client = None THEN TRUE ELSE client_state = "DISCONNECTED"

\* ------------------------------------------------- update_realtime_session
update_realtime_session(settings) ==
    /\ endpoint.pc = "session" /\ phase = "created"
    /\ phase' = "running"
    /\ wire' = IF realtime /= None
               THEN Append(wire, Sent("setup", "single",
                        SessionUpdateEvent(Session("system",
                            SettingOr(settings, "threshold", DefaultThreshold),
                            SettingOr(settings, "silence", DefaultSilence),
                            SettingOr(settings, "prefix", DefaultPrefix)))))
               ELSE wire
    /\ UNCHANGED <<client, realtime, response_queue, active, client_state,
                   application_state, rtConn, rtPc, rtIdx, rtIter, rtExit, clPc, closePc,
                   toClient, nMsgs, nEvents, nClose, clExit, rtLog, clLog, evLog,
                   endpoint>>
    /\ closeLog' = CloseLogAfterOther

\* --------------------------------------------------------- receive_realtime
\* The part of the state a step of receive_realtime reads and writes.
RtState ==
    [realtime |-> realtime, queue |-> response_queue, active |-> active,
     pc |-> rtPc, idx |-> rtIdx, iter |-> rtIter, exit |-> rtExit, wire |-> wire,
     out |-> toClient, log |-> rtLog, elog |-> evLog]

RtLogEnd(log, how) == IF log.state = "running" THEN [log EXCEPT !.state = how] ELSE log

RtFinally_Missing(s) == s

\* finally: self.realtime = None
RtFinally(s) == [s EXCEPT !.realtime = None]

\* The loop is left: normally ("returned"), by except WebSocketDisconnect
\* ("disconnect") or by except Exception ("exception"); the finally clause runs.
RtLeave(s, how) ==
    RtFinally([s EXCEPT !.pc = "done", !.exit = how, !.iter = 0,
                        !.log = RtLogEnd(@, IF how = "returned" THEN "finished" ELSE "raised"),
                        !.elog = RtLogEnd(@, IF how = "returned" THEN "finished" ELSE "raised")])

\* await self.realtime.send(ev) / self.realtime.response.create() in a handler:
\* AttributeError on None, ConnectionClosed on a closed connection.
RtRemoteSend(s, part, ev, pcNext) ==
    IF s.realtime = None \/ rtConn /= "open"
    THEN RtLeave(s, "exception")
    ELSE [s EXCEPT !.wire = Append(@, Sent("remote", part, ev)), !.pc = pcNext,
                   !.log.sent = Append(@, ev), !.elog.up = Append(@, ev)]

RtFlushNext_NoClear(s) ==
    IF s.idx < Len(s.queue)
    THEN RtRemoteSend([s EXCEPT !.idx = @ + 1],
                      IF s.idx = 0 THEN "first" ELSE "mid", s.queue[s.idx + 1], "rd_flush")
    ELSE RtRemoteSend(s, "last", ResponseCreateEvent, "rd_fin")

\* for item in self.response_queue: await self.realtime.send(item)
\* and, the list exhausted, clear() and await self.realtime.response.create()
RtFlushNext(s) ==
    IF s.idx < Len(s.queue)
    THEN RtRemoteSend([s EXCEPT !.idx = @ + 1],
                      IF s.idx = 0 THEN "first" ELSE "mid", s.queue[s.idx + 1], "rd_flush")
    ELSE RtRemoteSend([s EXCEPT !.queue = <<>>], "last", ResponseCreateEvent, "rd_fin")

\* self.active = False, and back to the async for
RtResponseDoneEnd(s) ==
    [s EXCEPT !.active = FALSE, !.pc = "recv", !.log = RtLogEnd(@, "finished"),
              !.elog = RtLogEnd(@, "finished")]

RtFlushGuard_NoLenTest(s0) ==
    LET s == [s0 EXCEPT !.log.held = s0.realtime /= None]
    IN  IF s.realtime /= None
        THEN RtFlushNext([s EXCEPT !.idx = 0])
        ELSE RtResponseDoneEnd(s)

\* if len(self.response_queue) > 0 and self.realtime is not None: ...
RtFlushGuard(s0) ==
    LET s == [s0 EXCEPT !.log.held = s0.realtime /= None]
    IN  IF Len(s.queue) > 0 /\ s.realtime /= None
        THEN RtFlushNext([s EXCEPT !.idx = 0])
        ELSE RtResponseDoneEnd(s)

\* A handler returns and the async for takes the next event.
RtReturn(s) == [s EXCEPT !.elog = RtLogEnd(@, "finished")]

RtIgnore_Raises(s) == RtLeave(s, "exception")

RtIgnore_Flushes(s) == RtFlushGuard(s)

\* A handler whose body is `pass`, and the else branch that prints.
RtIgnore(s) == RtReturn(s)

RtForward_Dropped(s, m) == RtReturn(s)

\* send_message / send_audio / send_console from a handler that then returns
RtForward(s, m) ==
    IF ~ClientSendable THEN RtReturn(s)
    ELSE IF ClientSendOk
    THEN RtReturn([s EXCEPT !.out = Append(@, m), !.elog.out = Append(@, m)])
    ELSE RtLeave(s, "exception")

ResponseDoneMessage_NoContent(o) ==
    Message("console", [id |-> o.id, role |-> o.role, content |-> None])

\* The Message _response_done builds from the first output item.
ResponseDoneMessage(o) ==
    CASE o.type = "message" ->
             Message("console", [id |-> o.id, role |-> o.role, content |-> o.content])
      [] o.type = "function_call" ->
             Message("function", [name |-> o.name,
                                  arguments |-> ArgumentsLoads(o.arguments).obj,
                                  call_id |-> o.call_id, id |-> o.id])
      [] OTHER -> Message("console", [dump |-> o])

\* _response_done up to its first await
ResponseDone(s, ev) ==
    LET o == ev.output
        t == [s EXCEPT !.log = [state |-> "running", q0 |-> s.queue, held |-> FALSE,
                                sent |-> <<>>]]
    IN  IF o.type \notin {"message", "function_call", "function_call_output"}
        THEN RtFlushGuard(t)
        ELSE IF o.type = "function_call" /\ ~ArgumentsLoads(o.arguments).ok
        THEN RtLeave(t, "exception")
        ELSE IF ~ClientSendable THEN RtFlushGuard(t)
        ELSE IF ClientSendOk
        THEN [t EXCEPT !.out = Append(@, ResponseDoneMessage(o)),
                       !.elog.out = Append(@, ResponseDoneMessage(o)), !.pc = "rd_guard"]
        ELSE RtLeave(t, "exception")

HasText(tr) == tr /= None /\ tr /= ""

\* The body of the async for: self.active = True and the if/elif chain.
RtHandle(s0, ev) ==
    LET s == [s0 EXCEPT !.active = TRUE, !.log = IdleLog,
                        !.elog = [state |-> "running", ev |-> ev, out |-> <<>>,
                                  up |-> <<>>]]
    IN  CASE ev.type = "session.created" ->
                 RtForward(s, Message("console", [dump |-> ev]))
          [] ev.type = "conversation.item.input_audio_transcription.completed" ->
                 IF HasText(ev.transcript)
                 THEN RtForward(s, Message("user", RawPayload(ev.transcript)))
                 ELSE RtReturn(s)
          [] ev.type = "input_audio_buffer.speech_started" ->
                 RtForward(s, Message("interrupt", RawPayload("")))
          [] ev.type = "response.audio_transcript.done" ->
                 IF HasText(ev.transcript)
                 THEN RtForward(s, Message("assistant", RawPayload(ev.transcript)))
                 ELSE RtReturn(s)
          [] ev.type = "response.audio.delta" ->
                 RtForward(s, Message("audio", RawPayload(ev.delta)))
          [] ev.type = "response.done" -> ResponseDone(s, ev)
          [] OTHER -> RtIgnore(s)

\* The handler resumed after an await.
RtContinue(s) ==
    CASE s.pc = "rd_guard" -> RtFlushGuard(s)
      [] s.pc = "rd_flush" -> RtFlushNext(s)
      [] s.pc = "rd_fin" -> RtResponseDoneEnd(s)

\* while self.realtime is not None and not self.closed: async for ...
\* evaluated on entry and whenever the iteration ends without an exception.
RtWhile(s) ==
    IF s.realtime /= None /\ ~closed THEN [s EXCEPT !.pc = "recv", !.iter = 1 - @]
    ELSE RtLeave(s, "returned")

RtSet(s) ==
    /\ realtime' = s.realtime
    /\ response_queue' = s.queue
    /\ active' = s.active
    /\ rtPc' = s.pc
    /\ rtIdx' = s.idx
    /\ rtIter' = s.iter
    /\ rtExit' = s.exit
    /\ wire' = s.wire
    /\ toClient' = s.out
    /\ rtLog' = s.log
    /\ evLog' = s.elog
    /\ closeLog' = CloseLogAfterOther
    /\ UNCHANGED <<client, client_state, application_state, rtConn, phase, clPc,
                   closePc, nMsgs, nClose, clExit, clLog, endpoint>>

\* receive_realtime is entered: return at once without a connection.
RtStart ==
    /\ phase = "running" /\ rtPc = "start"
    /\ RtSet(IF realtime = None THEN [RtState EXCEPT !.pc = "done", !.exit = "returned"]
             ELSE RtWhile(RtState))
    /\ UNCHANGED nEvents

\* The next event arrives and its handler runs to its first await.
RtReceive(ev, maxEvents) ==
    /\ rtPc = "recv" /\ rtConn = "open" /\ nEvents < maxEvents
    /\ nEvents' = nEvents + 1
    /\ RtSet(RtHandle(RtState, ev))

\* A handler suspended in an await is resumed.
RtResume ==
    /\ rtPc \in {"rd_guard", "rd_flush", "rd_fin"}
    /\ RtSet(RtContinue(RtState))
    /\ UNCHANGED nEvents

\* The connection is closed and the iteration ends normally (ConnectionClosedOK).
RtStreamEnd ==
    /\ rtPc = "recv" /\ rtConn = "closed"
    /\ RtSet(RtWhile(RtState))
    /\ UNCHANGED nEvents

\* The connection is closed and the iteration raises (ConnectionClosedError).
RtStreamError ==
    /\ rtPc = "recv" /\ rtConn = "closed"
    /\ RtSet(RtLeave(RtState, "exception"))
    /\ UNCHANGED nEvents

\* The remote peer or the network closes the connection.
RemoteDrop ==
    /\ phase = "running" /\ rtConn = "open"
    /\ rtConn' = "closed"
    /\ UNCHANGED <<client, realtime, response_queue, active, client_state,
                   application_state, phase, rtPc, rtIdx, rtIter, rtExit, clPc, closePc,
                   wire, toClient, nMsgs, nEvents, nClose, clExit, rtLog, clLog,
                   evLog, endpoint>>
    /\ closeLog' = CloseLogAfterOther

\* ----------------------------------------------------------- receive_client
\* The part of the state a step of receive_client writes.
ClState == [pc |-> clPc, exit |-> clExit, wire |-> wire, out |-> toClient, log |-> clLog]

ClLogEnd(log, how) == IF log.state = "running" THEN [log EXCEPT !.state = how] ELSE log

\* An exception other than WebSocketDisconnect leaves receive_client uncaught.
ClRaise(s) == [s EXCEPT !.pc = "done", !.exit = "exception", !.log = ClLogEnd(@, "raised")]

\* while self.client.client_state != DISCONNECTED: await self.client.receive_text()
\* AttributeError without a client; receive_text refuses a socket the
\* application has closed.
ClLoopTop(s) ==
    LET t == [s EXCEPT !.log = ClLogEnd(@, "finished")]
    IN  IF client = None THEN ClRaise(t)
        ELSE IF client_state = "DISCONNECTED" THEN [t EXCEPT !.pc = "done", !.exit = "returned"]
        ELSE IF application_state /= "CONNECTED" THEN ClRaise(t)
        ELSE [t EXCEPT !.pc = "recv", !.log = NoFrameLog]

ClRemoteSend_Prepends(s, part, ev, pcNext) ==
    IF realtime = None \/ rtConn /= "open"
    THEN ClRaise(s)
    ELSE [s EXCEPT !.wire = <<Sent("client", part, ev)>> \o @, !.pc = pcNext,
                   !.log.sent = Append(@, ev),
                   !.log.state = IF pcNext = "top" THEN "finished" ELSE @]

\* await self.realtime.send(ev) / self.realtime.response.create() in the loop
ClRemoteSend(s, part, ev, pcNext) ==
    IF realtime = None \/ rtConn /= "open"
    THEN ClRaise(s)
    ELSE [s EXCEPT !.wire = Append(@, Sent("client", part, ev)), !.pc = pcNext,
                   !.log.sent = Append(@, ev),
                   !.log.state = IF pcNext = "top" THEN "finished" ELSE @]

\* the else branch: send_console("Unhandled message")
ClUnhandled(s) ==
    IF ~ClientSendable THEN ClLoopTop(s)
    ELSE IF ClientSendOk
    THEN [s EXCEPT !.out = Append(@, Message("console", RawPayload("Unhandled message"))),
                   !.pc = "top",
                   !.log.out = Append(@, Message("console", RawPayload("Unhandled message"))),
                   !.log.state = "finished"]
    ELSE ClRaise(s)

\* json.loads(message), Message(**message_json) and the if/elif chain,
\* up to the first await.
ClHandle(s0, f) ==
    LET s == [s0 EXCEPT !.log = [state |-> "running", frame |-> f,
                                 sent |-> <<>>, out |-> <<>>]]
    IN  IF ~f.json \/ f.type \notin MessageTypes THEN ClRaise(s)
        ELSE CASE f.type = "audio" ->
                      ClRemoteSend(s, "single", InputAudioBufferAppendEvent(f.payload), "top")
               [] f.type = "user" ->
                      ClRemoteSend(s, "single",
                          ConversationItemCreateEvent(
                              ConversationItem("message", "user", f.payload, None, None)),
                          "top")
               [] f.type = "interrupt" ->
                      ClRemoteSend(s, "single", ResponseCreateEvent, "top")
               [] f.type = "function" ->
                      LET fm == JsonLoads(f.payload)
                      IN  IF ~fm.ok \/ ~fm.keys THEN ClRaise(s)
                          ELSE ClRemoteSend(s, "first",
                                   ConversationItemCreateEvent(
                                       ConversationItem("function_call_output", None, None,
                                                        fm.call_id, fm.output)),
                                   "fn_mid")
               [] OTHER -> ClUnhandled(s)

\* The loop body resumed after an await.
ClContinue(s) ==
    CASE s.pc = "fn_mid" -> ClRemoteSend(s, "last", ResponseCreateEvent, "top")
      [] s.pc = "top" -> ClLoopTop(s)

ClSet_ClearsActive(s) ==
    /\ clPc' = s.pc
    /\ clExit' = s.exit
    /\ wire' = s.wire
    /\ toClient' = s.out
    /\ clLog' = s.log
    /\ closeLog' = CloseLogAfterOther
    /\ active' = FALSE
    /\ UNCHANGED <<client, realtime, response_queue, client_state,
                   application_state, rtConn, phase, rtPc, rtIdx, rtIter, rtExit, closePc,
                   nEvents, nClose, rtLog, evLog, endpoint>>

\* What a step of receive_client writes: its position, the two channels and
\* its log; self.active and self.response_queue are not among them.
ClSet(s) ==
    /\ clPc' = s.pc
    /\ clExit' = s.exit
    /\ wire' = s.wire
    /\ toClient' = s.out
    /\ clLog' = s.log
    /\ closeLog' = CloseLogAfterOther
    /\ UNCHANGED <<client, realtime, response_queue, active, client_state,
                   application_state, rtConn, phase, rtPc, rtIdx, rtIter, rtExit, closePc,
                   nEvents, nClose, rtLog, evLog, endpoint>>

ClStart_Early ==
    /\ clPc = "start"
    /\ ClSet(IF client = None \/ realtime = None
             THEN [ClState EXCEPT !.pc = "done", !.exit = "returned"]
             ELSE ClLoopTop(ClState))
    /\ UNCHANGED nMsgs

\* receive_client is entered: return at once without both handles.
ClStart ==
    /\ phase = "running" /\ clPc = "start"
    /\ ClSet(IF client = None \/ realtime = None
             THEN [ClState EXCEPT !.pc = "done", !.exit = "returned"]
             ELSE ClLoopTop(ClState))
    /\ UNCHANGED nMsgs

\* receive_text returns a frame and the loop body runs to its first await.
ClientReceive(f, maxMsgs) ==
    /\ clPc = "recv" /\ client_state = "CONNECTED" /\ application_state = "CONNECTED"
    /\ nMsgs < maxMsgs
    /\ nMsgs' = nMsgs + 1
    /\ ClSet(ClHandle(ClState, f))

\* The loop body suspended in an await is resumed.
ClResume ==
    /\ clPc \in {"fn_mid", "top"}
    /\ ClSet(ClContinue(ClState))
    /\ UNCHANGED nMsgs

\* receive_text raises WebSocketDisconnect (the peer left, or the socket was
\* closed under the pending receive); the loop catches it and returns.
ClientDisconnect ==
    /\ clPc = "recv" /\ client_state = "CONNECTED"
    /\ client_state' = "DISCONNECTED"
    /\ clPc' = "done"
    /\ clExit' = "disconnect"
    /\ closeLog' = CloseLogAfterOther
    /\ UNCHANGED <<client, realtime, response_queue, active, application_state,
                   rtConn, phase, rtPc, rtIdx, rtIter, rtExit, closePc, wire, toClient,
                   nMsgs, nEvents, nClose, rtLog, clLog, evLog, endpoint>>

\* -------------------------------------------------------------------- close
CurrentHandles == Handles(client, realtime, application_state, rtConn)

\* The part of the state a step of close() writes.
CloseState ==
    [client |-> client, realtime |-> realtime, application_state |-> application_state,
     rtConn |-> rtConn, pc |-> closePc, log |-> closeLog]

\* close() returns.
CloseReturn(s) ==
    [s EXCEPT !.pc = "idle",
              !.log = [@ EXCEPT !.state = "returned",
                                !.exit = Handles(s.client, s.realtime,
                                                 s.application_state, s.rtConn)]]

\* except Exception: print, and both references are dropped
CloseExcept(s) == CloseReturn([s EXCEPT !.client = None, !.realtime = None])

\* close() up to the await inside self.client.close(); WebSocket.close raises
\* once the application has closed the socket, and clientCloseOk is whether
\* the server accepts the close frame of a peer that has already left.
CloseEnter(s0, clientCloseOk) ==
    LET s == [s0 EXCEPT !.log = [state |-> "running", entry |-> CurrentHandles,
                                 tried |-> {}, exit |-> NoHandles,
                                 direct |-> s0.log.state = "returned",
                                 prevExit |-> s0.log.exit]]
    IN  IF s.client = None \/ s.realtime = None THEN CloseReturn(s)
        ELSE LET t == [s EXCEPT !.log.tried = @ \cup {"client"}]
             IN  IF t.application_state /= "CONNECTED" THEN CloseExcept(t)
                 ELSE IF clientCloseOk
                 THEN [t EXCEPT !.application_state = "DISCONNECTED", !.pc = "mid"]
                 ELSE CloseExcept([t EXCEPT !.application_state = "DISCONNECTED"])

\* await self.realtime.close(): AttributeError if the reference was dropped
\* during the await before it; closing a closed connection is accepted.
CloseRemote(s) ==
    IF s.realtime = None THEN CloseExcept(s)
    ELSE CloseReturn([s EXCEPT !.rtConn = "closed", !.log.tried = @ \cup {"realtime"}])

CloseSet(s) ==
    /\ client' = s.client
    /\ realtime' = s.realtime
    /\ application_state' = s.application_state
    /\ rtConn' = s.rtConn
    /\ closePc' = s.pc
    /\ closeLog' = s.log
    /\ UNCHANGED <<response_queue, active, client_state, phase, rtPc, rtIdx, rtIter,
                   rtExit,
                   clPc, wire, toClient, nMsgs, nEvents, clExit, rtLog, clLog,
                   evLog>>

\* The owner of the session calls close().
CloseBegin(clientCloseOk, maxClose) ==
    /\ phase = "running" /\ closePc = "idle" /\ nClose < maxClose
    /\ clientCloseOk \/ client_state = "DISCONNECTED"
    /\ nClose' = nClose + 1
    /\ CloseSet(CloseEnter(CloseState, clientCloseOk))
    /\ UNCHANGED endpoint

\* close() is resumed after self.client.close().
CloseFinish ==
    /\ closePc = "mid"
    /\ CloseSet(CloseRemote(CloseState))
    /\ UNCHANGED <<nClose, endpoint>>

\* ----------------------------------------------------------- voice_endpoint
\* A step of voice_endpoint outside the session: at most the connection changes.
EpSet(pc, hasSession, conn) ==
    /\ endpoint' = [pc |-> pc, session |-> hasSession]
    /\ rtConn' = conn
    /\ closeLog' = CloseLogAfterOther
    /\ UNCHANGED <<client, realtime, response_queue, active, client_state,
                   application_state, phase, rtPc, rtIdx, rtIter, rtExit, clPc, closePc,
                   wire, toClient, nMsgs, nEvents, nClose, clExit, rtLog, clLog,
                   evLog>>

\* A setup frame is missing or malformed, or the template fails: the exception
\* leaves the async with (which closes the connection) and is caught; the
\* finally block finds no session.
EpSetupFails ==
    /\ endpoint.pc = "accepted"
    /\ EpSet("returned", FALSE, "closed")

\* session = RealtimeClient(...)
EpSessionCreated ==
    /\ endpoint.pc = "accepted"
    /\ EpSet("session", TRUE, rtConn)

\* await session.update_realtime_session(...) raises.
EpUpdateRaises ==
    /\ endpoint.pc = "session" /\ phase = "created"
    /\ EpSet("finally", TRUE, "closed")

\* await asyncio.gather(*tasks) returns when both tasks are done and raises as
\* soon as one of them does; either way the async with is left, the exception
\* is caught and the finally block is entered.
EpGatherEnd ==
    /\ endpoint.pc = "session" /\ phase = "running"
    /\ clExit = "exception" \/ (rtPc = "done" /\ clPc = "done")
    /\ EpSet("finally", TRUE, "closed")

\* finally: if 'session' in locals(): await session.close()
EpClose(clientCloseOk) ==
    /\ endpoint.pc = "finally" /\ endpoint.session /\ closePc = "idle"
    /\ clientCloseOk \/ client_state = "DISCONNECTED"
    /\ endpoint' = [endpoint EXCEPT !.pc = "closing"]
    /\ nClose' = nClose + 1
    /\ CloseSet(CloseEnter(CloseState, clientCloseOk))

EpReturn_Reraise ==
    /\ endpoint.pc = "closing" /\ closePc = "idle"
    /\ EpSet(IF clExit = "exception" THEN "raised" ELSE "returned", TRUE, "closed")

\* session.close() has returned; realtime_client.close() in its own try, and
\* the handler returns.
EpReturn ==
    /\ endpoint.pc = "closing" /\ closePc = "idle"
    /\ EpSet("returned", TRUE, "closed")

\* --------------------------------------------------------------------- Next
\* One event and one frame for each way through the handlers that the
\* interleaving of the loops can tell apart.
CoreEvents ==
    {Event("error", None, None, NoOutput),
     Event("response.done", None, None, NoOutput),
     Event("response.done", None, None,
           Output("message", "o1", "assistant", "hi", None, None, None)),
     Event("response.done", None, None,
           Output("function_call", "o1", None, None, "lookup", "{bad", "c1"))}

CoreFrames ==
    {Frame(FALSE, None, None), Frame(TRUE, "bogus", "a"), Frame(TRUE, "messages", "a"),
     Frame(TRUE, "audio", "a"), Frame(TRUE, "user", "a"), Frame(TRUE, "interrupt", "a"),
     Frame(TRUE, "function", "fn1")}

\* The events and frames under which the flush of a non-empty queue is followed.
QueueEvents ==
    {Event("error", None, None, NoOutput),
     Event("response.done", None, None, NoOutput),
     Event("response.done", None, None,
           Output("message", "o1", "assistant", "hi", None, None, None))}

QueueFrames == {Frame(TRUE, "audio", "a"), Frame(TRUE, "function", "fn1")}

\* Every kind of remote event, and a response.done with a second output item.
KindEvents ==
    Events \cup
    {WithMore(Event("response.done", None, None,
                    Output("message", "o1", "assistant", "hi", None, None, None)),
              Output("function_call", "o2", None, None, "lookup", None, "c2")),
     WithMore(Event("response.done", None, None,
                    Output("function_call", "o1", None, None, "lookup", "{\"id\":1}", "c1")),
              Output("message", "o2", "assistant", "bye", None, None, None)),
     Event("response.done", None, None,
           Output("function_call", "o1", None, None, "lookup", "", "c1"))}

KindFrames == {Frame(TRUE, "audio", "a")}

\* Frames and events whose translations differ from one another, so that the
\* order of two of them can be told on the other channel.
OrderFrames ==
    {Frame(TRUE, "audio", "a"), Frame(TRUE, "user", "a"), Frame(TRUE, "function", "fn1")}

OrderEvents ==
    {Event("input_audio_buffer.speech_started", None, None, NoOutput),
     Event("response.audio.delta", None, "pcm", NoOutput),
     Event("response.done", None, None,
           Output("message", "o1", "assistant", "hi", None, None, None))}

\* A response in progress: the event that opens it and its response.done.
ProgressEvents ==
    {Event("response.created", None, None, NoOutput),
     Event("response.done", None, None,
           Output("message", "o1", "assistant", "hi", None, None, None))}

NextOver(events, frames, max) ==
    \/ \E settings \in Settings : update_realtime_session(settings)
    \/ RtStart
    \/ \E ev \in events : RtReceive(ev, max.events)
    \/ RtResume
    \/ RtStreamEnd
    \/ RtStreamError
    \/ RemoteDrop
    \/ ClStart
    \/ \E f \in frames : ClientReceive(f, max.msgs)
    \/ ClResume
    \/ ClientDisconnect
    \/ \E ok \in BOOLEAN : CloseBegin(ok, max.close)
    \/ CloseFinish

Next ==
    NextOver(CoreEvents, CoreFrames,
             [msgs |-> MaxClientMsgs, events |-> MaxRemoteEvents, close |-> MaxClose])

NextQ ==
    NextOver(QueueEvents, QueueFrames,
             [msgs |-> MaxQueueMsgs, events |-> MaxQueueEvents, close |-> MaxQueueClose])

NextK ==
    NextOver(KindEvents, KindFrames,
             [msgs |-> MaxKindMsgs, events |-> MaxKindEvents, close |-> MaxKindClose])

\* The session as voice_endpoint drives it: close() is called by its finally
\* block only.
NextV ==
    \/ EpSetupFails
    \/ EpSessionCreated
    \/ \E settings \in Settings : update_realtime_session(settings)
    \/ EpUpdateRaises
    \/ RtStart
    \/ \E ev \in CoreEvents : RtReceive(ev, MaxRemoteEvents)
    \/ RtResume
    \/ RtStreamEnd
    \/ RtStreamError
    \/ RemoteDrop
    \/ ClStart
    \/ \E f \in CoreFrames : ClientReceive(f, MaxClientMsgs)
    \/ ClResume
    \/ ClientDisconnect
    \/ EpGatherEnd
    \/ \E ok \in BOOLEAN : EpClose(ok)
    \/ CloseFinish
    \/ EpReturn

NextO ==
    NextOver(OrderEvents, OrderFrames,
             [msgs |-> MaxOrderMsgs, events |-> MaxOrderEvents, close |-> MaxOrderClose])

Spec == Init /\ [][Next]_vars

SpecV == InitV /\ [][NextV]_vars

SpecK == Init /\ [][NextK]_vars

SpecQ == InitQ /\ [][NextQ]_vars

NextP ==
    NextOver(ProgressEvents, KindFrames,
             [msgs |-> MaxProgressMsgs, events |-> MaxProgressEvents,
              close |-> MaxProgressClose])

SpecP == InitQ /\ [][NextP]_vars

SpecO == Init /\ [][NextO]_vars

\* The session when every closure of the remote connection is a normal one
\* (the iteration ends, it does not raise).
NextF ==
    \/ \E settings \in Settings : update_realtime_session(settings)
    \/ RtStart
    \/ \E ev \in CoreEvents : RtReceive(ev, MaxFairEvents)
    \/ RtResume
    \/ RtStreamEnd
    \/ RemoteDrop
    \/ ClStart
    \/ \E f \in CoreFrames : ClientReceive(f, MaxFairMsgs)
    \/ ClResume
    \/ ClientDisconnect
    \/ \E ok \in BOOLEAN : CloseBegin(ok, MaxFairClose)
    \/ CloseFinish

\* The event loop runs every task that is ready: a started task is entered,
\* an await that has completed is resumed, an iteration over a closed
\* connection ends, and the server delivers the disconnect to a receive
\* pending on a socket the application has closed. Nothing is assumed of
\* the peers: no frame or event has to arrive, no peer has to leave.
Fairness ==
    /\ WF_vars(RtStart) /\ WF_vars(RtResume) /\ WF_vars(RtStreamEnd)
    /\ WF_vars(ClStart) /\ WF_vars(ClResume)
    /\ WF_vars(CloseFinish)
    /\ WF_vars(ClientDisconnect /\ application_state /= "CONNECTED")

SpecF == Init /\ [][NextF]_vars /\ Fairness

\* ------------------------------------------------------------------ claims

C2_CloseStillClosesClient ==
    (/\ closeLog.state = "returned"
     /\ closeLog.entry.realtime = None
     /\ closeLog.entry.client /= None
     /\ closeLog.entry.application_state = "CONNECTED")
        => "client" \in closeLog.tried

C4_UnrecognizedKindDiagnosed ==
    (/\ clLog.state \in {"finished", "raised"}
     /\ clLog.frame.json
     /\ clLog.frame.type \notin {"audio", "user", "interrupt", "function"})
        => /\ Len(clLog.out) = 1
           /\ clLog.out[1].type = "console"
           /\ clLog.sent = <<>>

\* C5: a malformed frame (not JSON, or a kind outside the enumeration) does
\* not end receive_client.
C5_MalformedKeepsLoop ==
    (/\ clLog.state /= "idle"
     /\ (~clLog.frame.json \/ clLog.frame.type \notin MessageTypes))
        => clPc /= "done"

\* C6: on an open connection, every function_call_output item the client loop
\* has sent is immediately followed on the wire by its response.create (the
\* item may be the last entry only while the loop is between the two sends).
C6_FunctionItemThenResponse ==
    rtConn = "open" =>
        \A i \in 1..Len(wire) :
            (/\ wire[i].by = "client"
             /\ wire[i].ev.type = "conversation.item.create"
             /\ wire[i].ev.item.type = "function_call_output"
             /\ ~(i = Len(wire) /\ clPc = "fn_mid"))
                => /\ i < Len(wire)
                   /\ wire[i + 1].by = "client"
                   /\ wire[i + 1].ev = ResponseCreateEvent

\* C7: on an open connection, an audio, user or interrupt frame is translated
\* to exactly its one remote event, and nothing is sent to the client.
C7_OneEventPerFrame ==
    (/\ clLog.state \in {"finished", "raised"}
     /\ clLog.frame.json
     /\ clLog.frame.type \in {"audio", "user", "interrupt"}
     /\ rtConn = "open")
        => /\ clLog.out = <<>>
           /\ clLog.sent =
                <<CASE clLog.frame.type = "audio" ->
                           InputAudioBufferAppendEvent(clLog.frame.payload)
                    [] clLog.frame.type = "user" ->
                           ConversationItemCreateEvent(
                               ConversationItem("message", "user",
                                                clLog.frame.payload, None, None))
                    [] clLog.frame.type = "interrupt" -> ResponseCreateEvent>>

\* C8: close() returns normally from every state, and a call made right after
\* another leaves the handles and the channels as that one left them.
C8_CloseIdempotent ==
    /\ closePc \in {"idle", "mid"}
    /\ (closeLog.state = "returned" /\ closeLog.direct)
           => closeLog.exit = closeLog.prevExit

\* C9: when close() has returned, both channels are closed, both references
\* are cleared and the session reports closed.
C9_CloseReleasesHandles ==
    closeLog.state = "returned" =>
        /\ client = None /\ realtime = None
        /\ application_state = "DISCONNECTED" /\ rtConn = "closed"
        /\ closed

\* C10: an exception in the remote-read loop ends receive_realtime without
\* leaving it (the loop is done, not raised), self.realtime is None from then
\* on, and no further remote event is handled.
C10_RemoteLoopFailFast ==
    [][rtExit' = "exception" =>
           /\ rtPc' = "done"
           /\ realtime' = None
           /\ (rtExit = "exception" => nEvents' = nEvents)]_vars

\* an exception raised by a handler, on an open connection, with events to come
C10_Witness ==
    /\ rtExit = "exception" /\ rtPc = "done" /\ realtime = None
    /\ rtConn = "open" /\ nEvents < MaxRemoteEvents

\* C11: once receive_realtime has ended while the client is connected, the
\* connection is open and close() has not been called, receive_client does not
\* fail on a well-formed frame.
C11_ClientLoopSurvives ==
    (/\ rtPc = "done" /\ rtConn = "open" /\ nClose = 0
     /\ client_state = "CONNECTED"
     /\ clLog.frame.json /\ clLog.frame.type \in MessageTypes)
        => clExit /= "exception"

\* C12: nothing is on the remote channel before update_realtime_session has
\* run; from then on the first entry is its session.update and no other entry
\* is a session.update.
C12_SetupFirstAndOnce ==
    /\ phase = "created" => wire = <<>>
    /\ phase = "running" =>
           /\ Len(wire) >= 1
           /\ wire[1].by = "setup" /\ wire[1].ev.type = "session.update"
           /\ \A i \in 2..Len(wire) :
                  wire[i].by /= "setup" /\ wire[i].ev.type /= "session.update"

C12_Witness ==
    /\ Len(wire) >= 3
    /\ wire[1].ev.type = "session.update"
    /\ wire[2].by = "client" /\ wire[3].by = "client"

\* C13: handling an event of a kind that is not one of the six handled kinds
\* sends nothing to the client and nothing upstream, raises nothing, and
\* leaves receive_realtime waiting for the next event.
C13_OtherKindsIgnored ==
    [][(/\ nEvents' = nEvents + 1
        /\ evLog'.ev.type \notin
               {"session.created", "input_audio_buffer.speech_started",
                "conversation.item.input_audio_transcription.completed",
                "response.audio_transcript.done", "response.audio.delta",
                "response.done"})
           => /\ evLog'.state = "finished" /\ evLog'.out = <<>> /\ evLog'.up = <<>>
              /\ toClient' = toClient /\ wire' = wire
              /\ rtPc' = "recv" /\ rtExit' = "none" /\ realtime' = realtime]_vars

C13_Witness ==
    /\ evLog.state = "finished" /\ rtPc = "recv"
    /\ evLog.ev.type = "output_audio_buffer.started"
    /\ client_state = "CONNECTED" /\ application_state = "CONNECTED"

\* C14 as stated: each forwarded kind appends exactly its Message to what the
\* client was sent and sends nothing upstream: session.created a console
\* Message of the event, a completed transcription a user Message and a done
\* audio transcript an assistant Message (none for an empty transcript),
\* speech_started an interrupt Message with empty payload, audio.delta an audio
\* Message with the delta.
C14_ForwardAlways ==
    [][(/\ nEvents' = nEvents + 1
        /\ evLog'.ev.type \in
               {"session.created", "input_audio_buffer.speech_started",
                "conversation.item.input_audio_transcription.completed",
                "response.audio_transcript.done", "response.audio.delta"})
           => LET ev == evLog'.ev
                  text == ev.transcript /= None /\ ev.transcript /= ""
                  m == CASE ev.type = "session.created" ->
                                <<Message("console", [dump |-> ev])>>
                         [] ev.type = "input_audio_buffer.speech_started" ->
                                <<Message("interrupt", RawPayload(""))>>
                         [] ev.type = "response.audio.delta" ->
                                <<Message("audio", RawPayload(ev.delta))>>
                         [] ev.type = "response.audio_transcript.done" ->
                                IF text THEN <<Message("assistant", RawPayload(ev.transcript))>>
                                ELSE <<>>
                         [] OTHER ->
                                IF text THEN <<Message("user", RawPayload(ev.transcript))>>
                                ELSE <<>>
              IN  toClient' = toClient \o m /\ wire' = wire]_vars

\* C14 as amended: the same, for an event handled while the client socket is
\* set, not DISCONNECTED and not closed by the session.
C14_ForwardWhenClientLive ==
    [][(/\ nEvents' = nEvents + 1
        /\ client /= None /\ client_state /= "DISCONNECTED"
        /\ application_state = "CONNECTED"
        /\ evLog'.ev.type \in
               {"session.created", "input_audio_buffer.speech_started",
                "conversation.item.input_audio_transcription.completed",
                "response.audio_transcript.done", "response.audio.delta"})
           => LET ev == evLog'.ev
                  text == ev.transcript /= None /\ ev.transcript /= ""
                  m == CASE ev.type = "session.created" ->
                                <<Message("console", [dump |-> ev])>>
                         [] ev.type = "input_audio_buffer.speech_started" ->
                                <<Message("interrupt", RawPayload(""))>>
                         [] ev.type = "response.audio.delta" ->
                                <<Message("audio", RawPayload(ev.delta))>>
                         [] ev.type = "response.audio_transcript.done" ->
                                IF text THEN <<Message("assistant", RawPayload(ev.transcript))>>
                                ELSE <<>>
                         [] OTHER ->
                                IF text THEN <<Message("user", RawPayload(ev.transcript))>>
                                ELSE <<>>
              IN  toClient' = toClient \o m /\ wire' = wire]_vars

C14_Witness ==
    /\ evLog.state = "finished" /\ evLog.ev.type = "response.audio.delta"
    /\ evLog.out = <<Message("audio", RawPayload("pcm"))>>
    /\ toClient = evLog.out

\* C15 as stated: a response.done whose first output item is a message with a
\* non-empty transcript sends the client exactly one console Message
\* {id, role, content} built from that item, whatever follows the item; a
\* response.done without output items sends the client nothing.
C15_ConsoleAlways ==
    [][/\ (/\ nEvents' = nEvents + 1
           /\ evLog'.ev.type = "response.done"
           /\ evLog'.ev.output.type = "message"
           /\ evLog'.ev.output.content \notin {None, ""})
              => LET o == evLog'.ev.output
                     m == Message("console",
                                  [id |-> o.id, role |-> o.role, content |-> o.content])
                 IN  toClient' = Append(toClient, m) /\ evLog'.out = <<m>>
       /\ (/\ nEvents' = nEvents + 1
           /\ evLog'.ev.type = "response.done"
           /\ evLog'.ev.output = NoOutput)
              => toClient' = toClient /\ evLog'.out = <<>>
       /\ (nEvents' = nEvents /\ evLog.ev.type = "response.done")
              => evLog'.out = evLog.out]_vars

\* C15 as amended: the same, for a response.done handled while the client
\* socket is set, not DISCONNECTED and not closed by the session.
C15_ConsoleWhenClientLive ==
    [][/\ (/\ nEvents' = nEvents + 1
           /\ client /= None /\ client_state /= "DISCONNECTED"
           /\ application_state = "CONNECTED"
           /\ evLog'.ev.type = "response.done"
           /\ evLog'.ev.output.type = "message"
           /\ evLog'.ev.output.content \notin {None, ""})
              => LET o == evLog'.ev.output
                     m == Message("console",
                                  [id |-> o.id, role |-> o.role, content |-> o.content])
                 IN  toClient' = Append(toClient, m) /\ evLog'.out = <<m>>
       /\ (/\ nEvents' = nEvents + 1
           /\ evLog'.ev.type = "response.done"
           /\ evLog'.ev.output = NoOutput)
              => toClient' = toClient /\ evLog'.out = <<>>
       /\ (nEvents' = nEvents /\ evLog.ev.type = "response.done")
              => evLog'.out = evLog.out]_vars

C15_Witness ==
    /\ evLog.state = "finished" /\ evLog.ev.type = "response.done"
    /\ evLog.ev.output.type = "message" /\ evLog.ev.more.type = "function_call"
    /\ evLog.out = <<Message("console", [id |-> "o1", role |-> "assistant",
                                         content |-> "hi"])>>

\* C16 as stated: a response.done whose first output item is a function call
\* sends the client exactly one function Message {name, arguments, call_id,
\* id}, arguments being the item's arguments parsed, {} if absent or empty.
C16_FunctionAlways ==
    [][/\ (/\ nEvents' = nEvents + 1
           /\ evLog'.ev.type = "response.done"
           /\ evLog'.ev.output.type = "function_call")
              => LET o == evLog'.ev.output
                     m == Message("function",
                              [name |-> o.name,
                               arguments |-> IF o.arguments \in {None, ""} THEN "{}"
                                             ELSE ArgumentsLoads(o.arguments).obj,
                               call_id |-> o.call_id, id |-> o.id])
                 IN  toClient' = Append(toClient, m) /\ evLog'.out = <<m>>
       /\ (nEvents' = nEvents /\ evLog.ev.type = "response.done")
              => evLog'.out = evLog.out]_vars

\* C16 as amended: the same, for a response.done handled while the client
\* socket is set, not DISCONNECTED and not closed by the session, and whose
\* arguments are absent, empty or valid JSON.
C16_FunctionWhenClientLive ==
    [][/\ (/\ nEvents' = nEvents + 1
           /\ client /= None /\ client_state /= "DISCONNECTED"
           /\ application_state = "CONNECTED"
           /\ evLog'.ev.type = "response.done"
           /\ evLog'.ev.output.type = "function_call"
           /\ (evLog'.ev.output.arguments \in {None, ""}
                   \/ ArgumentsLoads(evLog'.ev.output.arguments).ok))
              => LET o == evLog'.ev.output
                     m == Message("function",
                              [name |-> o.name,
                               arguments |-> IF o.arguments \in {None, ""} THEN "{}"
                                             ELSE ArgumentsLoads(o.arguments).obj,
                               call_id |-> o.call_id, id |-> o.id])
                 IN  toClient' = Append(toClient, m) /\ evLog'.out = <<m>>
       /\ (nEvents' = nEvents /\ evLog.ev.type = "response.done")
              => evLog'.out = evLog.out]_vars

C16_Witness ==
    /\ evLog.state = "finished" /\ evLog.ev.type = "response.done"
    /\ evLog.ev.output.type = "function_call" /\ evLog.ev.output.arguments = None
    /\ evLog.out = <<Message("function", [name |-> "lookup", arguments |-> "{}",
                                          call_id |-> "c1", id |-> "o1"])>>

\* C17: voice_endpoint never leaves with an exception, close() is called at
\* most once, and when the handler has returned close() has been called once
\* if the session was created and not at all otherwise.
C17_EndpointContainsFailures ==
    /\ endpoint.pc /= "raised"
    /\ nClose <= 1
    /\ endpoint.pc = "returned" =>
           /\ closePc = "idle"
           /\ nClose = IF endpoint.session THEN 1 ELSE 0

\* the client loop has raised, gather has re-raised it, the handler returned
C17_Witness ==
    /\ endpoint.pc = "returned" /\ endpoint.session
    /\ clExit = "exception" /\ nClose = 1

\* C18: the client's disconnect ends receive_client by the caught
\* WebSocketDisconnect, and no step appends to what the client was sent while
\* self.client is None or its client_state is DISCONNECTED.
C18_NoSendAfterDisconnect ==
    [][/\ client_state' = "DISCONNECTED" => clPc' = "done" /\ clExit' = "disconnect"
       /\ (client = None \/ client_state = "DISCONNECTED") => toClient' = toClient]_vars

\* the client left before its first frame; a response.done with a message was
\* then handled to its end and its console Message was skipped
C18_Witness ==
    /\ client_state = "DISCONNECTED" /\ clExit = "disconnect" /\ nMsgs = 0
    /\ client /= None /\ application_state = "CONNECTED"
    /\ evLog.state = "finished" /\ evLog.ev.output.type = "message"
    /\ evLog.out = <<>> /\ toClient = <<>>

C20_ActiveAfterEvent ==
    evLog.state \in {"finished", "raised"}
        => active = (evLog.ev.type /= "response.done")

\* C21: self.active and self.response_queue are single-writer. Every step of
\* receive_client (whatever the kind of the frame) and every step of close()
\* leaves both unchanged, and a step that changes either of them is a step of
\* receive_realtime handling an event: the receipt of the event or the
\* resumption of its response.done handler.
C21_SingleWriter ==
    [][/\ (\/ nMsgs' /= nMsgs \/ clPc' /= clPc \/ clLog' /= clLog
            \/ nClose' /= nClose \/ closePc' /= closePc)
           => (active' = active /\ response_queue' = response_queue)
       /\ (active' /= active \/ response_queue' /= response_queue)
           => (\/ nEvents' = nEvents + 1
               \/ rtPc \in {"rd_guard", "rd_flush", "rd_fin"})]_vars

\* The flag has been cleared by a response.done, a function frame is half
\* handled by receive_client and close() has been called and has returned.
C21_Witness ==
    /\ ~active /\ nEvents >= 1
    /\ nMsgs >= 1 /\ clPc = "fn_mid"
    /\ nClose >= 1 /\ closePc = "idle"

\* C22: within each loop, handling is in arrival order with no reordering,
\* dropping or coalescing: each frame receive_client receives appends its
\* translation (the function frame's in two steps) to what receive_client has
\* sent on the remote channel, each event receive_realtime receives appends
\* its translation to what has been sent to the client, and no other step
\* changes either sequence.
C22_InOrderAlways ==
    [][LET ByClient(w) == w.by = "client"
           f == clLog'.frame
           fm == JsonLoads(f.payload)
           First ==
               CASE f.json /\ f.type = "audio" ->
                        <<Sent("client", "single", InputAudioBufferAppendEvent(f.payload))>>
                 [] f.json /\ f.type = "user" ->
                        <<Sent("client", "single",
                               ConversationItemCreateEvent(
                                   ConversationItem("message", "user", f.payload,
                                                    None, None)))>>
                 [] f.json /\ f.type = "interrupt" ->
                        <<Sent("client", "single", ResponseCreateEvent)>>
                 [] f.json /\ f.type = "function" /\ fm.ok /\ fm.keys ->
                        <<Sent("client", "first",
                               ConversationItemCreateEvent(
                                   ConversationItem("function_call_output", None, None,
                                                    fm.call_id, fm.output)))>>
                 [] OTHER -> <<>>
           ev == evLog'.ev
           o == ev.output
           Translated ==
               CASE ev.type = "session.created" -> <<Message("console", [dump |-> ev])>>
                 [] ev.type = "conversation.item.input_audio_transcription.completed"
                    /\ HasText(ev.transcript) ->
                        <<Message("user", RawPayload(ev.transcript))>>
                 [] ev.type = "input_audio_buffer.speech_started" ->
                        <<Message("interrupt", RawPayload(""))>>
                 [] ev.type = "response.audio_transcript.done"
                    /\ HasText(ev.transcript) ->
                        <<Message("assistant", RawPayload(ev.transcript))>>
                 [] ev.type = "response.audio.delta" ->
                        <<Message("audio", RawPayload(ev.delta))>>
                 [] ev.type = "response.done"
                    /\ o.type \in {"message", "function_call_output"} ->
                        <<ResponseDoneMessage(o)>>
                 [] ev.type = "response.done" /\ o.type = "function_call"
                    /\ ArgumentsLoads(o.arguments).ok ->
                        <<ResponseDoneMessage(o)>>
                 [] OTHER -> <<>>
       IN  /\ SelectSeq(wire', ByClient) =
                 IF nMsgs' = nMsgs + 1
                 THEN IF TRUE
                      THEN SelectSeq(wire, ByClient) \o First
                      ELSE SelectSeq(wire, ByClient)
                 ELSE IF clPc = "fn_mid" /\ clPc' /= "fn_mid"
                 THEN IF TRUE
                      THEN Append(SelectSeq(wire, ByClient),
                                  Sent("client", "last", ResponseCreateEvent))
                      ELSE SelectSeq(wire, ByClient)
                 ELSE SelectSeq(wire, ByClient)
           /\ IF nEvents' = nEvents + 1
              THEN toClient' = IF TRUE THEN toClient \o Translated ELSE toClient
              ELSE nMsgs' = nMsgs => toClient' = toClient]_vars

\* C22, amended: the same, for a frame handled while self.realtime is set and
\* the connection is open and for an event handled while the client socket is
\* live; a frame or an event handled otherwise appends nothing, and the
\* sequences are never reordered, shortened or extended by anything else.
C22_InOrderWhenLive ==
    [][LET ByClient(w) == w.by = "client"
           f == clLog'.frame
           fm == JsonLoads(f.payload)
           First ==
               CASE f.json /\ f.type = "audio" ->
                        <<Sent("client", "single", InputAudioBufferAppendEvent(f.payload))>>
                 [] f.json /\ f.type = "user" ->
                        <<Sent("client", "single",
                               ConversationItemCreateEvent(
                                   ConversationItem("message", "user", f.payload,
                                                    None, None)))>>
                 [] f.json /\ f.type = "interrupt" ->
                        <<Sent("client", "single", ResponseCreateEvent)>>
                 [] f.json /\ f.type = "function" /\ fm.ok /\ fm.keys ->
                        <<Sent("client", "first",
                               ConversationItemCreateEvent(
                                   ConversationItem("function_call_output", None, None,
                                                    fm.call_id, fm.output)))>>
                 [] OTHER -> <<>>
           ev == evLog'.ev
           o == ev.output
           Translated ==
               CASE ev.type = "session.created" -> <<Message("console", [dump |-> ev])>>
                 [] ev.type = "conversation.item.input_audio_transcription.completed"
                    /\ HasText(ev.transcript) ->
                        <<Message("user", RawPayload(ev.transcript))>>
                 [] ev.type = "input_audio_buffer.speech_started" ->
                        <<Message("interrupt", RawPayload(""))>>
                 [] ev.type = "response.audio_transcript.done"
                    /\ HasText(ev.transcript) ->
                        <<Message("assistant", RawPayload(ev.transcript))>>
                 [] ev.type = "response.audio.delta" ->
                        <<Message("audio", RawPayload(ev.delta))>>
                 [] ev.type = "response.done"
                    /\ o.type \in {"message", "function_call_output"} ->
                        <<ResponseDoneMessage(o)>>
                 [] ev.type = "response.done" /\ o.type = "function_call"
                    /\ ArgumentsLoads(o.arguments).ok ->
                        <<ResponseDoneMessage(o)>>
                 [] OTHER -> <<>>
       IN  /\ SelectSeq(wire', ByClient) =
                 IF nMsgs' = nMsgs + 1
                 THEN IF realtime /= None /\ rtConn = "open"
                      THEN SelectSeq(wire, ByClient) \o First
                      ELSE SelectSeq(wire, ByClient)
                 ELSE IF clPc = "fn_mid" /\ clPc' /= "fn_mid"
                 THEN IF realtime /= None /\ rtConn = "open"
                      THEN Append(SelectSeq(wire, ByClient),
                                  Sent("client", "last", ResponseCreateEvent))
                      ELSE SelectSeq(wire, ByClient)
                 ELSE SelectSeq(wire, ByClient)
           /\ IF nEvents' = nEvents + 1
              THEN toClient' = IF ClientSendable /\ ClientSendOk THEN toClient \o Translated ELSE toClient
              ELSE nMsgs' = nMsgs => toClient' = toClient]_vars

\* Two frames of different kinds have been translated in their order of
\* arrival, and so have two events of different kinds.
C22_Witness ==
    LET ByClient(w) == w.by = "client"
        sent == SelectSeq(wire, ByClient)
    IN  /\ nMsgs = 2 /\ Len(sent) = 2 /\ sent[1].ev /= sent[2].ev
        /\ nEvents = 2 /\ Len(toClient) = 2 /\ toClient[1] /= toClient[2]

\* C23: closing the session cancels both loops. Once close() has closed both
\* channels of a session whose channels were live and whose loops are
\* running, no handler in progress is aborted and both receive_realtime and
\* receive_client eventually terminate.
C23_CloseEndsBothLoops ==
    (/\ closeLog.state = "returned"
     /\ closeLog.entry = Handles(Sock, Conn, "CONNECTED", "open")
     /\ closeLog.tried = {"client", "realtime"}
     /\ rtPc \notin {"start", "done"} /\ clPc \notin {"start", "done"})
    ~> (/\ rtPc = "done" /\ clPc = "done"
        /\ clLog.state /= "raised" /\ evLog.state /= "raised")

\* C24: a clean disconnect of the remote channel while the client is still
\* connected ends receive_realtime: once the connection has closed under the
\* iteration of a session nobody has closed, the loop eventually returns and
\* self.realtime is None, unless the session is closed or the client leaves
\* before it does.
C24_CleanDisconnectEndsLoop ==
    (/\ rtConn = "closed" /\ rtPc = "recv" /\ nClose = 0
     /\ client /= None /\ client_state = "CONNECTED")
    ~> (\/ rtPc = "done" /\ realtime = None
        \/ nClose > 0
        \/ client_state /= "CONNECTED")

\* C25: queued items are never sent in the middle of a response: a step in
\* which receive_realtime sends anything on the remote channel is a step of
\* the response.done handler (the receipt of the event or the resumption of
\* its flush), and what it sends is one item of the queue as it was when the
\* response.done arrived, or the response.create that ends the flush.
C25_ItemsOnlyInResponseDone ==
    [][LET ByRemote(w) == w.by = "remote"
       IN  SelectSeq(wire', ByRemote) /= SelectSeq(wire, ByRemote)
           => /\ evLog'.ev.type = "response.done"
              /\ nEvents' = nEvents + 1 \/ rtPc \in {"rd_guard", "rd_flush"}
              /\ \E x \in {rtLog'.q0[k] : k \in 1..Len(rtLog'.q0)}
                            \cup {ResponseCreateEvent} :
                     \E part \in {"first", "mid", "last"} :
                         SelectSeq(wire', ByRemote) =
                             Append(SelectSeq(wire, ByRemote), Sent("remote", part, x))]_vars

\* The first event of a response was handled with items queued and nothing
\* was sent; the response.done that followed is sending the first item.
C25_Witness ==
    LET ByRemote(w) == w.by = "remote"
    IN  /\ nEvents = 2 /\ evLog.ev.type = "response.done" /\ rtPc = "rd_flush"
        /\ SelectSeq(wire, ByRemote) = <<Sent("remote", "first", QueueItem(1))>>

\* C26: response_queue is empty in every reachable state of a session whose
\* queue only the class itself could fill (no frame kind, no event kind,
\* update_realtime_session or close() appends to it), so the flush of
\* response.done sends nothing and receive_realtime never writes to the
\* remote channel.
C26_QueueAlwaysEmpty ==
    /\ response_queue = <<>>
    /\ \A i \in 1..Len(wire) : wire[i].by /= "remote"
    /\ rtLog.sent = <<>> /\ evLog.up = <<>>

\* A response.done has been handled to its end with self.realtime set, after
\* a client frame was translated and close() was called.
C26_Witness ==
    /\ rtLog.state = "finished" /\ rtLog.held /\ evLog.ev.type = "response.done"
    /\ nMsgs >= 1 /\ \E i \in 1..Len(wire) : wire[i].by = "client"
    /\ nClose >= 1

====
